---------------------------- MODULE Spec2Model ----------------------------
(***************************************************************************)
(* A model of the build pipeline of c4-astro:                              *)
(*   - the cached LikeC4 workspace handle (src/lib/likec4.mjs),            *)
(*   - the PlantUML renderer generateSvg and the discovery findPumlFiles   *)
(*     (src/lib/plantuml.mjs, scripts/generate-uml.mjs),                   *)
(*   - the batch drivers generateAll (CLI script) and umlPlugin.buildStart *)
(*     (astro.config.mjs),                                                 *)
(*   - the file watchers startWatcher and umlPlugin.configureServer.       *)
(*                                                                         *)
(* Strings that the code takes apart (paths, file names) are sequences of  *)
(* tokens: a name such as "a.puml" is <<"a", ".puml">>, a path separator   *)
(* is the token "/".  Every asynchronous function is cut at its awaits:    *)
(* one action per continuation, so that the interleavings the event loop   *)
(* allows are the interleavings of the model.                              *)
(***************************************************************************)
EXTENDS Integers, Sequences, FiniteSets, TLC

VARIABLES
    \* ---- likec4.mjs: module state and the calls in flight
    likec4Instance,   \* _likec4Instance: 0 is null, n > 0 the handle of load n
    loadsStarted,     \* number of LikeC4.fromWorkspace calls started so far
    callPc,           \* per caller: "idle" | "loading" | "done" | "failed"
    callLoad,         \* per caller: the load it awaits (0: none)
    callResult,       \* per caller: the handle its promise resolved to (0: none)
    \* ---- the file system and the renderer calls in flight
    tree,             \* the entries of UML_DIR, as readdir lists them
    sources,          \* full path of a source file -> version of its content
    dirs,             \* the directories created below the output root
    artifacts,        \* output path -> the bytes last written to it
    tasks,            \* the generateSvg calls made so far, in call order
    \* ---- the batch driver: generateAll (script) or buildStart (plugin)
    driver,           \* "cli" (generate-uml.mjs) | "plugin" (astro.config.mjs)
    svgsGenerated,    \* the plugin's flag
    buildStartCalls,  \* number of buildStart calls made so far
    batchPc,          \* "idle" | "discovering" | "mkdir" | "awaiting" | "done" | "threw"
    files,            \* the result of findPumlFiles
    batchTasks,       \* the promises handed to Promise.allSettled (task indices)
    report,           \* what the driver has printed: the tally and the failures
    exitCode,         \* of the CLI script: None while it runs, then <<status>>
    \* ---- the watcher: startWatcher (script) or configureServer (plugin)
    watcher,          \* the fs.watch subscription: "none" | "open" | "closed"
    handlers,         \* the invocations of the listener, in the order of the events
    reloads,          \* the full-reload signals sent (the handler that sent each)
    errorsLogged,     \* the messages the listener's catch block has logged
    httpServer,       \* server.httpServer: "none" (null) | "listening" | "closed"
    devServer,        \* the dev server that owns the plugin: "none" | "running" | "closed"
    \* ---- the directory scans: generateUmlSidebar and findPumlFiles, called on a tree
    sidebarDir,       \* the `dir` argument of the call of generateUmlSidebar
    scanTree,         \* the entries of the scanned directory, as readdir lists them
    scanCalls,        \* the functions that have been called and have returned
    sidebarItems,     \* the result of generateUmlSidebar
    pumlFiles,        \* the result of findPumlFiles
    \* ---- the reference scans: findDiagramReferences and findC4ViewReferences
    docs,             \* the entries of docsDir, the pages with what they embed
    refQuery,         \* the call: which function, and its arguments
    references        \* the result of the call

cacheVars == <<likec4Instance, loadsStarted, callPc, callLoad, callResult>>

fsVars == <<tree, sources, dirs, artifacts, tasks>>

batchVars == <<driver, svgsGenerated, buildStartCalls, batchPc, files, batchTasks,
               report, exitCode>>

watchVars == <<watcher, handlers, reloads, errorsLogged, httpServer, devServer>>

scanVars == <<sidebarDir, scanTree, scanCalls, sidebarItems, pumlFiles, docs, refQuery,
              references>>

\* What a step of a generateSvg call leaves alone.
driverVars == <<cacheVars, batchVars, watchVars, scanVars>>

vars == <<cacheVars, fsVars, batchVars, watchVars, scanVars>>

(***************************************************************************)
(* Bounds                                                                  *)
(***************************************************************************)
NumCallers == 3

Callers == 1..NumCallers

(***************************************************************************)
(* Paths (node:path) and the string operations the code applies to them    *)
(***************************************************************************)
SEP == "/"

\* join(a, b) of two non-empty, normalised paths
Join(a, b) == a \o <<SEP>> \o b

\* s.slice(n): the string from (0-based) position n on
Slice(s, n) == SubSeq(s, n + 1, Len(s))

\* name.endsWith(suffix), suffix one token
EndsWith(name, suffix) == Len(name) > 0 /\ name[Len(name)] = suffix

\* replace('.puml', '.svg') without the anchor: the first .puml is replaced
ReplaceFirstPuml(p) ==
    LET hits == {i \in 1..Len(p) : p[i] = ".puml"}
    IN  IF hits = {} THEN p
        ELSE LET first == CHOOSE i \in hits : \A j \in hits : i <= j
             IN  [k \in 1..Len(p) |-> IF k = first THEN ".svg" ELSE p[k]]

\* relativePath.replace(/\.puml$/, '.svg'): only a trailing .puml is replaced
ReplacePumlSuffix(p) ==
    IF EndsWith(p, ".puml") THEN SubSeq(p, 1, Len(p) - 1) \o <<".svg">> ELSE p

SepPositions(p) == {i \in 1..Len(p) : p[i] = SEP}

Max(S) == CHOOSE x \in S : \A y \in S : y <= x

\* dirname(p)
Dirname(p) ==
    IF SepPositions(p) = {} THEN <<".">> ELSE SubSeq(p, 1, Max(SepPositions(p)) - 1)

\* mkdir(d, { recursive: true }): d and every missing ancestor of it
MkdirP(d) == {d} \cup {SubSeq(d, 1, i - 1) : i \in SepPositions(d)}

UML_DIR == <<"uml">>

OUTPUT_DIR == <<"public", SEP, "uml-generated">>

(***************************************************************************)
(* Directory trees: what readdir(dir, { withFileTypes: true }) lists       *)
(***************************************************************************)
FileEntry(name) == [name |-> name, isDir |-> FALSE, children |-> <<>>]

DirEntry(name, children) == [name |-> name, isDir |-> TRUE, children |-> children]

TreeNoMatch == << FileEntry(<<"readme", ".md">>),
                  DirEntry(<<"empty">>, <<>>),
                  DirEntry(<<"img">>, << FileEntry(<<"a", ".svg">>) >>) >>

TreeOne == << FileEntry(<<"a", ".puml">>), FileEntry(<<"a", ".svg">>) >>

TreeTwo == << FileEntry(<<"a", ".puml">>),
              DirEntry(<<"sub">>, << FileEntry(<<"a", ".puml">>),
                                     FileEntry(<<"notes", ".txt">>) >>) >>

TreeThree == << FileEntry(<<"a", ".puml">>),
                FileEntry(<<"a", ".puml", ".puml">>),
                DirEntry(<<"d", ".puml">>, << FileEntry(<<"b", ".puml">>) >>) >>

Trees == {TreeNoMatch, TreeOne, TreeTwo, TreeThree}

(***************************************************************************)
(* plantuml.mjs / generate-uml.mjs: findPumlFiles                          *)
(***************************************************************************)
\* findPumlFiles without the recursion into subdirectories.
FindPumlFilesTopLevel(entries, dir, baseDir) ==
    LET matching == SelectSeq(entries, LAMBDA e : ~e.isDir /\ EndsWith(e.name, ".puml"))
    IN  [k \in 1..Len(matching) |->
            [fullPath |-> Join(dir, matching[k].name),
             relativePath |-> Slice(Join(dir, matching[k].name), Len(baseDir) + 1)]]

RECURSIVE FindPumlFiles(_, _, _)
FindPumlFiles(entries, dir, baseDir) ==
    IF entries = <<>> THEN <<>>
    ELSE LET entry == Head(entries)
             fullPath == Join(dir, entry.name)
             found ==
                 IF entry.isDir
                   THEN FindPumlFiles(entry.children, fullPath, baseDir)
                   ELSE IF EndsWith(entry.name, ".puml")
                          THEN << [fullPath |-> fullPath,
                                   relativePath |-> Slice(fullPath, Len(baseDir) + 1)] >>
                          ELSE <<>>
         IN  found \o FindPumlFiles(Tail(entries), dir, baseDir)

(***************************************************************************)
(* astro.config.mjs: generateUmlSidebar                                    *)
(***************************************************************************)
\* The names of this section are written letter by letter, so that labels
\* can be compared: <<"a", ".puml">> is a.puml.

\* The collation of String.prototype.localeCompare (ICU, default options) on
\* the characters used here: punctuation before letters, letters in
\* alphabetical order whatever their case (primary weight), and for strings
\* with equal primary weights lower case before upper case (tertiary weight).
PrimaryWeight == (".puml" :> 0) @@ ("a" :> 1) @@ ("A" :> 1) @@ ("b" :> 2) @@ ("B" :> 2)
                    @@ ("c" :> 3) @@ ("d" :> 4)

TertiaryWeight == (".puml" :> 0) @@ ("a" :> 0) @@ ("A" :> 1) @@ ("b" :> 0) @@ ("B" :> 1)
                     @@ ("c" :> 0) @@ ("d" :> 0)

\* The UTF-16 code unit a string starts with.
CodeUnit == (".puml" :> 46) @@ ("a" :> 97) @@ ("A" :> 65) @@ ("b" :> 98) @@ ("B" :> 66)
               @@ ("c" :> 99) @@ ("d" :> 100)

Min(S) == CHOOSE x \in S : \A y \in S : x <= y

\* The comparison of two sequences of numbers, position by position:
\* negative, zero or positive.
LexCompare(u, v) ==
    LET differing == {i \in 1..Len(u) : i <= Len(v) /\ u[i] # v[i]}
    IN  IF differing # {}
          THEN IF u[Min(differing)] < v[Min(differing)] THEN -1 ELSE 1
          ELSE IF Len(u) < Len(v) THEN -1
          ELSE IF Len(u) > Len(v) THEN 1
          ELSE 0

Weights(weight, label) == [i \in 1..Len(label) |-> weight[label[i]]]

\* A comparison by code units, as of strings with `<`: upper case first.
CodeUnitCompare(a, b) == LexCompare(Weights(CodeUnit, a), Weights(CodeUnit, b))

\* a.localeCompare(b)
LocaleCompare(a, b) ==
    IF LexCompare(Weights(PrimaryWeight, a), Weights(PrimaryWeight, b)) # 0
      THEN LexCompare(Weights(PrimaryWeight, a), Weights(PrimaryWeight, b))
      ELSE LexCompare(Weights(TertiaryWeight, a), Weights(TertiaryWeight, b))

\* items.sort((a, b) => a.label.localeCompare(b.label)); Array.prototype.sort
\* is stable: an item goes behind the items that do not compare greater.
RECURSIVE SortByLabel(_)
SortByLabel(items) ==
    IF items = <<>> THEN <<>>
    ELSE LET last == items[Len(items)]
             sorted == SortByLabel(SubSeq(items, 1, Len(items) - 1))
             before == {i \in 1..Len(sorted) : LocaleCompare(sorted[i].label, last.label) <= 0}
         IN  SubSeq(sorted, 1, Cardinality(before)) \o <<last>>
                \o SubSeq(sorted, Cardinality(before) + 1, Len(sorted))

\* join(dir, name): the result is normalised, a leading ./ is gone
JoinNormalized(dir, name) ==
    IF Len(dir) >= 2 /\ dir[1] = "." /\ dir[2] = SEP
      THEN Join(Slice(dir, 2), name)
      ELSE Join(dir, name)

\* baseDir.replace(/^\.\//, '')
NormalizedBaseDir(baseDir) ==
    IF Len(baseDir) >= 2 /\ baseDir[1] = "." /\ baseDir[2] = SEP
      THEN Slice(baseDir, 2)
      ELSE baseDir

\* s.replace(sub, ''): the first occurrence of sub is removed
RemoveFirst(s, sub) ==
    LET hits == {i \in 1..Len(s) : i + Len(sub) - 1 <= Len(s)
                                      /\ SubSeq(s, i, i + Len(sub) - 1) = sub}
    IN  IF hits = {} THEN s
        ELSE SubSeq(s, 1, Min(hits) - 1) \o SubSeq(s, Min(hits) + Len(sub), Len(s))

\* s.replace(/\.puml$/, '')
RemovePumlSuffix(s) == IF EndsWith(s, ".puml") THEN SubSeq(s, 1, Len(s) - 1) ELSE s

\* A link made of the file's name alone.
SidebarLinkOfName(urlBase, baseDir, fullPath) ==
    LET seps == SepPositions(fullPath)
        name == IF seps = {} THEN fullPath ELSE Slice(fullPath, Max(seps))
    IN  urlBase \o <<SEP>> \o RemovePumlSuffix(name)

\* `${urlBase}/${relativePath}` with
\* relativePath = fullPath.replace(normalizedBaseDir + '/', '').replace(/\.puml$/, '')
SidebarLink(urlBase, baseDir, fullPath) ==
    urlBase \o <<SEP>>
       \o RemovePumlSuffix(RemoveFirst(fullPath, NormalizedBaseDir(baseDir) \o <<SEP>>))

\* A group for every subdirectory, whatever the recursion returned.
GroupItemsUnpruned(name, subItems) == << [label |-> name, items |-> subItems] >>

\* if (subItems.length > 0) items.push({ label: entry.name, items: subItems })
GroupItems(name, subItems) ==
    IF Len(subItems) > 0 THEN << [label |-> name, items |-> subItems] >> ELSE <<>>

\* items.push({ label: entry.name.replace('.puml', ''), link: ... })
LeafItem(name, urlBase, baseDir, fullPath) ==
    [label |-> RemoveFirst(name, <<".puml">>), link |-> SidebarLink(urlBase, baseDir, fullPath)]

IsGroup(item) == "items" \in DOMAIN item

\* generateUmlSidebar(dir, baseDir, urlBase), entries being readdirSync(dir);
\* SidebarLoop is its for loop.
RECURSIVE GenerateUmlSidebar(_, _, _, _)
RECURSIVE SidebarLoop(_, _, _, _)
SidebarLoop(entries, dir, baseDir, urlBase) ==
    IF entries = <<>> THEN <<>>
    ELSE LET entry == Head(entries)
             fullPath == JoinNormalized(dir, entry.name)
             pushed ==
                 IF entry.isDir
                   THEN GroupItems(entry.name,
                                   GenerateUmlSidebar(entry.children, fullPath, baseDir, urlBase))
                   ELSE IF EndsWith(entry.name, ".puml")
                          THEN << LeafItem(entry.name, urlBase, baseDir, fullPath) >>
                          ELSE <<>>
         IN  pushed \o SidebarLoop(Tail(entries), dir, baseDir, urlBase)

GenerateUmlSidebar(entries, dir, baseDir, urlBase) ==
    SortByLabel(SidebarLoop(entries, dir, baseDir, urlBase))

\* The default of the parameter urlBase.
URL_BASE == <<"/uml">>

\* The directories the configurations call generateUmlSidebar with:
\* '../uml' (astro_starlight/astro.config.mjs) and './uml' (astro.config.mjs).
SidebarDirs == { <<"..", SEP, "uml">>, <<".", SEP, "uml">> }

(***************************************************************************)
(* The directory trees the scans are applied to                            *)
(***************************************************************************)
MaxEntries == 3

\* What a subdirectory of the scanned root holds.
ChildLists ==
    { <<>>,
      << FileEntry(<<"c", ".txt">>) >>,
      << FileEntry(<<"a", ".puml">>) >>,
      << FileEntry(<<"b", ".puml">>), FileEntry(<<"A", ".puml">>) >>,
      << DirEntry(<<"c">>, << DirEntry(<<"d">>, <<>>) >>) >>,
      << DirEntry(<<"c">>, << FileEntry(<<"B", ".puml">>) >>), FileEntry(<<"c", ".txt">>) >> }

\* The entries the scanned root is made of.
RootEntries ==
    { FileEntry(<<"a", ".puml">>), FileEntry(<<"B", ".puml">>),
      FileEntry(<<"a", ".puml", ".puml">>), FileEntry(<<"c", ".txt">>) }
       \cup { DirEntry(name, children) :
                 name \in { <<"A">>, <<"b">>, <<"d", ".puml">> }, children \in ChildLists }

\* The listings of a directory: up to MaxEntries entries of distinct names,
\* in any order.
ScanTrees ==
    UNION { { t \in [1..n -> RootEntries] :
                 \A i, j \in 1..n : t[i].name = t[j].name => i = j } : n \in 0..MaxEntries }

(***************************************************************************)
(* plantuml.mjs: findDiagramReferences; likec4.mjs: findC4ViewReferences   *)
(***************************************************************************)
\* The text of a page is a sequence of tokens: "<", the parts of a component
\* name, attribute names with their "=", quote characters, the characters of
\* an identifier, white space, ">" and "/>".
DQ == "\""

SQ == "'"

\* the backtick
BT == "backtick"

\* The character classes of the patterns: ["'`{], ["'`}], \s and what [^>]
\* excludes.
OpenQuotes == {DQ, SQ, BT, "{"}

CloseQuotes == {DQ, SQ, BT, "}"}

Whitespace == {" ", "\n"}

TagEnd == {">", "/>"}

\* The ways an embed writes the value of its attribute: id="..", id='..',
\* id={`..`} and id={".."}.
Styles == {"double", "single", "template", "braceDouble"}

Open(style) ==
    CASE style = "double" -> <<DQ>>
      [] style = "single" -> <<SQ>>
      [] style = "template" -> <<"{", BT>>
      [] style = "braceDouble" -> <<"{", DQ>>

Close(style) ==
    CASE style = "double" -> <<DQ>>
      [] style = "single" -> <<SQ>>
      [] style = "template" -> <<BT, "}">>
      [] style = "braceDouble" -> <<DQ, "}">>

\* The text of an embed: <Component ...attributes before... attr=value />
EmbedSource(e) ==
    <<"<">> \o e.component \o e.before \o <<" ", e.attr>> \o Open(e.style) \o e.id
       \o Close(e.style) \o <<" ", "/>", "\n">>

\* readFile(fullPath, 'utf-8') of a page: its frontmatter and its embeds
RECURSIVE PageSource(_)
PageSource(parts) ==
    IF parts = <<>> THEN <<"---", "\n">>
    ELSE PageSource(SubSeq(parts, 1, Len(parts) - 1)) \o EmbedSource(parts[Len(parts)])

\* regex.test(content) for the pattern
\*   <NAME[^>]*\sATTR["'`{]+"?ID["'`}]+
\* where ID is the escaped identifier, which matches itself only: the tag
\* starts at i, the white space before the attribute is at j, the run of
\* opening quotes ends before q, the identifier starts at k.
RegexTest(content, name, attr, id) ==
    LET n == Len(content)
        tag == <<"<">> \o name
    IN  \E i \in {i \in 1..n : content[i] = "<"} :
            /\ i + Len(tag) - 1 <= n
            /\ SubSeq(content, i, i + Len(tag) - 1) = tag
            /\ \E j \in {j \in (i + Len(tag))..(n - 1) :
                            content[j] \in Whitespace /\ content[j + 1] = attr} :
                  /\ \A m \in (i + Len(tag))..(j - 1) : content[m] \notin TagEnd
                  /\ \E q \in (j + 3)..n :
                        /\ \A m \in (j + 2)..(q - 1) : content[m] \in OpenQuotes
                        /\ \E k \in {q} \cup (IF content[q] = DQ THEN {q + 1} ELSE {}) :
                              /\ k + Len(id) <= n
                              /\ SubSeq(content, k, k + Len(id) - 1) = id
                              /\ content[k + Len(id)] \in CloseQuotes

\* relativePath.replace(/\.mdx?$/, '').replace(/\/index$/, '').replace(/\\/g, '/')
\* (the paths here hold no backslash)
Slug(relativePath) ==
    LET stem == IF EndsWith(relativePath, ".mdx") \/ EndsWith(relativePath, ".md")
                  THEN SubSeq(relativePath, 1, Len(relativePath) - 1)
                  ELSE relativePath
    IN  IF Len(stem) >= 2 /\ stem[Len(stem) - 1] = SEP /\ stem[Len(stem)] = "index"
          THEN SubSeq(stem, 1, Len(stem) - 2)
          ELSE stem

\* scanDocsDir(dir, baseDir, references, patterns), entries being
\* readdir(dir): the references it pushes.  The title of a reference is left
\* out.
RECURSIVE ScanDocsDir(_, _, _, _)
ScanDocsDir(entries, dir, baseDir, patterns) ==
    IF entries = <<>> THEN <<>>
    ELSE LET entry == Head(entries)
             fullPath == Join(dir, entry.name)
             relativePath == Slice(fullPath, Len(baseDir) + 1)
             pushed ==
                 IF entry.isDir
                   THEN ScanDocsDir(entry.children, fullPath, baseDir, patterns)
                   ELSE IF EndsWith(entry.name, ".mdx") \/ EndsWith(entry.name, ".md")
                          THEN IF \E p \in patterns :
                                     RegexTest(PageSource(entry.parts), p.name, p.attr, p.id)
                                 THEN << [filePath |-> relativePath,
                                          slug |-> Slug(relativePath)] >>
                                 ELSE <<>>
                          ELSE <<>>
         IN  pushed \o ScanDocsDir(Tail(entries), dir, baseDir, patterns)

\* findDiagramReferences(diagramFile, docsDir), entries being readdir(docsDir)
FindDiagramReferences(diagramFile, entries, docsDir) ==
    ScanDocsDir(entries, docsDir, docsDir,
                {[name |-> <<"PlantUML">>, attr |-> "file=", id |-> diagramFile]})

\* c.toUpperCase() for the first characters of the names used here
ToUpperCase == ("e" :> "E") @@ ("p" :> "P") @@ ("b" :> "B")

\* str.charAt(0).toUpperCase() + str.slice(1)
Capitalize(str) == IF str = <<>> THEN str ELSE <<ToUpperCase[str[1]]>> \o Slice(str, 1)

\* componentNames of findC4ViewReferences: the project's component and the
\* generic alias
ComponentNames(projectName) == << <<"C4View">> \o Capitalize(projectName), <<"C4View">> >>

\* findC4ViewReferences(projectName, viewId, docsDir), entries being
\* readdir(docsDir)
FindC4ViewReferences(projectName, viewId, entries, docsDir) ==
    ScanDocsDir(entries, docsDir, docsDir,
                {[name |-> ComponentNames(projectName)[n], attr |-> "viewId=", id |-> viewId] :
                    n \in 1..Len(ComponentNames(projectName))})

\* getComponentName(projectId): projectId.split('-'), capitalize of every
\* part, join(''), and the prefix C4View
GetComponentName(projectId) ==
    LET RECURSIVE Split(_)
        Split(str) ==
            LET hyphens == {i \in 1..Len(str) : str[i] = "-"}
            IN  IF hyphens = {} THEN <<str>>
                ELSE <<SubSeq(str, 1, Min(hyphens) - 1)>> \o Split(Slice(str, Min(hyphens)))
        RECURSIVE JoinCapitalized(_)
        JoinCapitalized(parts) ==
            IF parts = <<>> THEN <<>>
            ELSE Capitalize(Head(parts)) \o JoinCapitalized(Tail(parts))
    IN  <<"C4View">> \o JoinCapitalized(Split(projectId))

(***************************************************************************)
(* The pages the reference scans are applied to                            *)
(***************************************************************************)
MaxEmbeds == 1

DOCS_DIR == <<"docs">>

\* The identifier asked for, two identifiers that hold it as a proper prefix
\* and as a proper suffix, another one, and one that no page holds.
Target == <<"x", "1">>

TargetAsPrefix == <<"x", "1", "0">>

TargetAsSuffix == <<"a", "x", "1">>

OtherId == <<"y">>

AbsentId == <<"z">>

\* The project ids: ecommerce and projekt-b
ProjectName == <<"e", "commerce">>

Embed(component, before, attr, style, id) ==
    [component |-> component, before |-> before, attr |-> attr, style |-> style, id |-> id]

\* An attribute whose value holds a ">": alt="a->b"
AltAttribute == <<" ", "alt=", DQ, "a", "-", ">", "b", DQ>>

PlantUmlEmbeds ==
    { Embed(<<"PlantUML">>, <<>>, "file=", style, id) :
         style \in Styles, id \in {Target, TargetAsPrefix, TargetAsSuffix, OtherId} }
       \cup { Embed(<<"PlantUML">>, AltAttribute, "file=", "double", Target) }

C4ViewEmbeds ==
    { Embed(<<"C4View", "E", "commerce">>, <<>>, "viewId=", style, id) :
         style \in {"double", "template"}, id \in {Target, TargetAsPrefix} }
       \cup { Embed(<<"C4View">>, <<>>, "viewId=", "single", Target),
              Embed(<<"C4View", "E", "commerce">>, <<" ", "pannable">>, "viewId=", "double",
                    Target),
              Embed(<<"C4View", "P", "rojekt", "B">>, <<>>, "viewId=", "double", Target) }

Embeds == PlantUmlEmbeds \cup C4ViewEmbeds

\* What a page embeds: up to MaxEmbeds embeds.
PageParts == UNION { [1..n -> Embeds] : n \in 0..MaxEmbeds }

PageEntry(name, parts) == [name |-> name, isDir |-> FALSE, children |-> <<>>, parts |-> parts]

\* docsDir: a page in the root, pages in a subdirectory, and a file that is
\* no page although it holds an embed of the identifier asked for.
DocsTrees ==
    { << PageEntry(<<"index", ".mdx">>, first),
         DirEntry(<<"guide">>, << PageEntry(<<"intro", ".md">>, second),
                                  PageEntry(<<"index", ".mdx">>, third) >>),
         PageEntry(<<"notes", ".txt">>,
                   << Embed(<<"PlantUML">>, <<>>, "file=", "double", Target) >>) >> :
         first \in PageParts,
         second \in { <<>>,
                      << Embed(<<"PlantUML">>, <<>>, "file=", "single", Target) >>,
                      << Embed(<<"PlantUML">>, <<>>, "file=", "double", TargetAsPrefix) >>,
                      << Embed(<<"C4View", "E", "commerce">>, <<>>, "viewId=", "double",
                               Target) >> },
         third \in { <<>>,
                     << Embed(<<"PlantUML">>, <<>>, "file=", "double", Target),
                        Embed(<<"C4View">>, <<>>, "viewId=", "double", Target) >> } }

\* The calls: which function, for which identifier.
RefQueries ==
    { [fn |-> "findDiagramReferences", projectName |-> <<>>, id |-> id] :
         id \in {Target, AbsentId} }
       \cup { [fn |-> "findC4ViewReferences", projectName |-> projectName, id |-> id] :
                projectName \in {ProjectName, <<"p", "rojekt", "-", "b">>}, id \in {Target, AbsentId} }

(***************************************************************************)
(* plantuml.mjs / generate-uml.mjs: generateSvg, one action per await      *)
(***************************************************************************)
None == <<>>

Undefined == <<"undefined">>

StatusCodes == {200, 204, 404}

\* response.ok
Ok(status) == status >= 200 /\ status <= 299

\* plantumlEncoder.encode(content): a reversible encoding
Encode(content) == <<"enc", content>>

\* `${SERVER_URL}/${encoded}`
Url(encoded) == <<"SERVER_URL", SEP, encoded>>

\* The body the rendering server answers a request with.
Rendering(url) == <<"svg", url[3]>>

\* new Error(`Failed to fetch ${relativePath}: ${response.status}`)
FetchError(relativePath, status) ==
    [name |-> "Error", message |-> <<"Failed to fetch ", relativePath, ": ", status>>]

\* The error a rejected readFile, fetch, response.text, mkdir or writeFile
\* carries: its message is the platform's, not the program's.
IoError == [name |-> "Error", message |-> <<"I/O error">>]

\* join(outputDir, relativePath.replace(/\.puml$/, '.svg'))
OutputPath(outputDir, relativePath) == Join(outputDir, ReplacePumlSuffix(relativePath))

\* What generateSvg returns: the library function returns outputPath, the
\* script's own copy returns nothing.
ReturnValue(impl, outputPath) == IF impl = "lib" THEN outputPath ELSE Undefined

\* A call generateSvg(pumlPath, relativePath, outputDir), suspended at its
\* first await (readFile).
NewTask(impl, origin, pumlPath, relativePath, outputDir) ==
    [impl |-> impl, origin |-> origin, pumlPath |-> pumlPath,
     relativePath |-> relativePath, outputDir |-> outputDir,
     pc |-> "readFile", url |-> None, svg |-> None, outputPath |-> None,
     value |-> None, reason |-> None]

TaskIds == 1..Len(tasks)

Settled(t) == t.pc \in {"fulfilled", "rejected"}

Reject(t, reason) == [t EXCEPT !.pc = "rejected", !.reason = reason]

\* No artifact written yet.
EmptyFs == [p \in {} |-> None]

\* writeFile(path, data): creates or overwrites
WriteFile(fs, path, data) ==
    [p \in DOMAIN fs \cup {path} |-> IF p = path THEN data ELSE fs[p]]

ReadFileOk(i) ==
    /\ tasks[i].pc = "readFile"
    /\ tasks[i].pumlPath \in DOMAIN sources
    /\ LET content == [path |-> tasks[i].pumlPath, version |-> sources[tasks[i].pumlPath]]
       IN  tasks' = [tasks EXCEPT ![i].pc = "fetch", ![i].url = Url(Encode(content))]
    /\ UNCHANGED <<tree, sources, dirs, artifacts, driverVars>>

ReadFileFailed(i) ==
    /\ tasks[i].pc = "readFile"
    /\ tasks' = [tasks EXCEPT ![i] = Reject(@, IoError)]
    /\ UNCHANGED <<tree, sources, dirs, artifacts, driverVars>>

\* The response handled without the test of response.ok.
FetchRespondedIgnoringStatus(i, status) ==
    /\ tasks[i].pc = "fetch"
    /\ tasks' = [tasks EXCEPT ![i].pc = "text"]
    /\ UNCHANGED <<tree, sources, dirs, artifacts, driverVars>>

FetchResponded(i, status) ==
    /\ tasks[i].pc = "fetch"
    /\ IF ~Ok(status)
         THEN tasks' = [tasks EXCEPT
                          ![i] = Reject(@, FetchError(tasks[i].relativePath, status))]
         ELSE tasks' = [tasks EXCEPT ![i].pc = "text"]
    /\ UNCHANGED <<tree, sources, dirs, artifacts, driverVars>>

FetchFailed(i) ==
    /\ tasks[i].pc = "fetch"
    /\ tasks' = [tasks EXCEPT ![i] = Reject(@, IoError)]
    /\ UNCHANGED <<tree, sources, dirs, artifacts, driverVars>>

TextOk(i) ==
    /\ tasks[i].pc = "text"
    /\ tasks' = [tasks EXCEPT
                   ![i].pc = "mkdir",
                   ![i].svg = Rendering(tasks[i].url),
                   ![i].outputPath = OutputPath(tasks[i].outputDir, tasks[i].relativePath)]
    /\ UNCHANGED <<tree, sources, dirs, artifacts, driverVars>>

TextFailed(i) ==
    /\ tasks[i].pc = "text"
    /\ tasks' = [tasks EXCEPT ![i] = Reject(@, IoError)]
    /\ UNCHANGED <<tree, sources, dirs, artifacts, driverVars>>

MkdirOk(i) ==
    /\ tasks[i].pc = "mkdir"
    /\ dirs' = dirs \cup MkdirP(Dirname(tasks[i].outputPath))
    /\ tasks' = [tasks EXCEPT ![i].pc = "writeFile"]
    /\ UNCHANGED <<tree, sources, artifacts, driverVars>>

MkdirFailed(i) ==
    /\ tasks[i].pc = "mkdir"
    /\ tasks' = [tasks EXCEPT ![i] = Reject(@, IoError)]
    /\ UNCHANGED <<tree, sources, dirs, artifacts, driverVars>>

WriteFileOk(i) ==
    /\ tasks[i].pc = "writeFile"
    /\ artifacts' = WriteFile(artifacts, tasks[i].outputPath, tasks[i].svg)
    /\ tasks' = [tasks EXCEPT
                   ![i].pc = "fulfilled",
                   ![i].value = ReturnValue(tasks[i].impl, tasks[i].outputPath)]
    /\ UNCHANGED <<tree, sources, dirs, driverVars>>

WriteFileFailed(i) ==
    /\ tasks[i].pc = "writeFile"
    /\ tasks' = [tasks EXCEPT ![i] = Reject(@, IoError)]
    /\ UNCHANGED <<tree, sources, dirs, artifacts, driverVars>>

\* One step of the generateSvg call i.
GenerateSvgStep(i) ==
    \/ ReadFileOk(i)
    \/ ReadFileFailed(i)
    \/ \E status \in StatusCodes : FetchResponded(i, status)
    \/ FetchFailed(i)
    \/ TextOk(i)
    \/ TextFailed(i)
    \/ MkdirOk(i)
    \/ MkdirFailed(i)
    \/ WriteFileOk(i)
    \/ WriteFileFailed(i)

\* The source files of a tree with their content versions: all at version 1.
RECURSIVE SourcePaths(_, _)
SourcePaths(entries, dir) ==
    IF entries = <<>> THEN {}
    ELSE LET entry == Head(entries)
             fullPath == Join(dir, entry.name)
         IN  (IF entry.isDir THEN SourcePaths(entry.children, fullPath) ELSE {fullPath})
                \cup SourcePaths(Tail(entries), dir)

FsInit ==
    /\ tree \in Trees
    /\ sources = [p \in SourcePaths(tree, UML_DIR) |-> 1]
    /\ dirs = {}
    /\ artifacts = EmptyFs
    /\ tasks = <<>>

\* The file system as the specifications that do not touch it hold it.
IdleFs ==
    /\ tree = TreeOne
    /\ sources = [p \in SourcePaths(TreeOne, UML_DIR) |-> 1]
    /\ dirs = {}
    /\ artifacts = EmptyFs
    /\ tasks = <<>>

(***************************************************************************)
(* The batch driver: generateAll (generate-uml.mjs) and                    *)
(* umlPlugin.buildStart (astro.config.mjs)                                 *)
(***************************************************************************)
MaxBuildStartCalls == 2

\* The generateSvg the driver calls: the script has its own copy, the plugin
\* imports the library's.
ImplOf(d) == IF d = "cli" THEN "script" ELSE "lib"

\* files.map(f => generateSvg(f.fullPath, f.relativePath, OUTPUT_DIR)) with only
\* the first file's conversion started.
StartConversionsFirstOnly(d, fs) ==
    IF fs = <<>> THEN <<>>
    ELSE << NewTask(ImplOf(d), "batch", fs[1].fullPath, fs[1].relativePath, OUTPUT_DIR) >>

\* files.map(f => generateSvg(f.fullPath, f.relativePath, OUTPUT_DIR)): every
\* call runs to its first await before map returns.
StartConversions(d, fs) ==
    [k \in 1..Len(fs) |->
        NewTask(ImplOf(d), "batch", fs[k].fullPath, fs[k].relativePath, OUTPUT_DIR)]

\* results.filter(r => r.status === 'rejected')
SelectRejected(results) == SelectSeq(results, LAMBDA r : r.pc = "rejected")

\* The tally with the failures not subtracted.
GeneratedCountAll(results, failed) == Len(results)

\* results.length - failed.length
GeneratedCount(results, failed) == Len(results) - Len(failed)

NoReport == [kind |-> "none"]

\* Main of the script: `await generateAll()`.
GenerateAll ==
    /\ driver = "cli"
    /\ batchPc = "idle"
    /\ batchPc' = "discovering"
    /\ UNCHANGED <<driver, svgsGenerated, buildStartCalls, files, batchTasks, report,
                   exitCode, fsVars, cacheVars, watchVars, scanVars>>

\* buildStart without the test of svgsGenerated: every call starts a run.
BuildStartEveryCall ==
    /\ driver = "plugin"
    /\ buildStartCalls < MaxBuildStartCalls
    /\ buildStartCalls' = buildStartCalls + 1
    /\ svgsGenerated' = TRUE
    /\ batchPc' = "discovering"
    /\ UNCHANGED <<driver, files, batchTasks, report, exitCode, fsVars, cacheVars, watchVars,
                   scanVars>>

\* buildStart of the plugin, up to its first await.
BuildStart ==
    /\ driver = "plugin"
    /\ buildStartCalls < MaxBuildStartCalls
    /\ buildStartCalls' = buildStartCalls + 1
    /\ IF svgsGenerated
         THEN UNCHANGED <<svgsGenerated, batchPc>>
         ELSE /\ svgsGenerated' = TRUE
              /\ batchPc' = "discovering"
    /\ UNCHANGED <<driver, files, batchTasks, report, exitCode, fsVars, cacheVars, watchVars,
                   scanVars>>

\* findPumlFiles(UML_DIR) resolved, the empty result not tested for.
DiscoveredWithoutEmptyCheck ==
    /\ batchPc = "discovering"
    /\ files' = FindPumlFiles(tree, UML_DIR, UML_DIR)
    /\ batchPc' = "mkdir"
    /\ UNCHANGED <<driver, svgsGenerated, buildStartCalls, batchTasks, report, exitCode,
                   fsVars, cacheVars, watchVars, scanVars>>

\* findPumlFiles(UML_DIR) resolved: the empty result is reported and ends the run.
Discovered ==
    /\ batchPc = "discovering"
    /\ files' = FindPumlFiles(tree, UML_DIR, UML_DIR)
    /\ IF Len(files') = 0
         THEN /\ report' = [kind |-> "noFiles"]
              /\ batchPc' = "done"
         ELSE /\ batchPc' = "mkdir"
              /\ UNCHANGED report
    /\ UNCHANGED <<driver, svgsGenerated, buildStartCalls, batchTasks, exitCode, fsVars, cacheVars, watchVars,
                   scanVars>>

\* findPumlFiles(UML_DIR) rejected (readdir failed): the driver throws.
DiscoveryFailed ==
    /\ batchPc = "discovering"
    /\ batchPc' = "threw"
    /\ UNCHANGED <<driver, svgsGenerated, buildStartCalls, files, batchTasks, report,
                   exitCode, fsVars, cacheVars, watchVars, scanVars>>

\* mkdir(OUTPUT_DIR) resolved; all conversions are started and handed to
\* Promise.allSettled.
OutputDirCreated ==
    /\ batchPc = "mkdir"
    /\ dirs' = dirs \cup MkdirP(OUTPUT_DIR)
    /\ tasks' = tasks \o StartConversions(driver, files)
    /\ batchTasks' = [k \in 1..(Len(tasks') - Len(tasks)) |-> Len(tasks) + k]
    /\ batchPc' = "awaiting"
    /\ UNCHANGED <<driver, svgsGenerated, buildStartCalls, files, report, exitCode,
                   tree, sources, artifacts, cacheVars, watchVars, scanVars>>

\* mkdir(OUTPUT_DIR) rejected: the driver throws.
OutputDirFailed ==
    /\ batchPc = "mkdir"
    /\ batchPc' = "threw"
    /\ UNCHANGED <<driver, svgsGenerated, buildStartCalls, files, batchTasks, report,
                   exitCode, fsVars, cacheVars, watchVars, scanVars>>

\* Promise.all in the place of Promise.allSettled: the first rejection makes
\* the await throw.
AllOrFirstRejection ==
    /\ batchPc = "awaiting"
    /\ \E k \in 1..Len(batchTasks) : tasks[batchTasks[k]].pc = "rejected"
    /\ batchPc' = "threw"
    /\ UNCHANGED <<driver, svgsGenerated, buildStartCalls, files, batchTasks, report,
                   exitCode, fsVars, cacheVars, watchVars, scanVars>>

\* Promise.allSettled resolved: the failures are listed and the tally printed.
AllSettled ==
    /\ batchPc = "awaiting"
    /\ \A k \in 1..Len(batchTasks) : Settled(tasks[batchTasks[k]])
    /\ LET results == [k \in 1..Len(batchTasks) |-> tasks[batchTasks[k]]]
           failed == SelectRejected(results)
       IN  report' = [kind |-> "tally",
                      errors |-> IF Len(failed) > 0
                                   THEN [count |-> Len(failed),
                                         messages |-> [k \in 1..Len(failed) |->
                                                          failed[k].reason.message]]
                                   ELSE [count |-> 0, messages |-> <<>>],
                      generated |-> GeneratedCount(results, failed),
                      total |-> Len(files)]
    /\ batchPc' = "done"
    /\ UNCHANGED <<driver, svgsGenerated, buildStartCalls, files, batchTasks, exitCode,
                   fsVars, cacheVars, watchVars, scanVars>>

\* The script's process ends (no --watch): nothing sets process.exitCode, so
\* the status is 0 unless the top-level await rejected.
ProcessExit ==
    /\ driver = "cli"
    /\ exitCode = None
    /\ batchPc \in {"done", "threw"}
    /\ exitCode' = IF batchPc = "threw" THEN <<1>> ELSE <<0>>
    /\ UNCHANGED <<driver, svgsGenerated, buildStartCalls, batchPc, files, batchTasks,
                   report, fsVars, cacheVars, watchVars, scanVars>>

\* No directory scan, as the specifications of the drivers hold it.
IdleScan ==
    /\ sidebarDir = <<>>
    /\ scanTree = <<>>
    /\ scanCalls = {}
    /\ sidebarItems = <<>>
    /\ pumlFiles = <<>>
    /\ docs = <<>>
    /\ refQuery = <<>>
    /\ references = <<>>

\* The watcher as the specifications without one hold it.
IdleWatch ==
    /\ watcher = "none"
    /\ handlers = <<>>
    /\ reloads = <<>>
    /\ errorsLogged = <<>>
    /\ httpServer = "none"
    /\ devServer = "none"

BatchStateInit ==
    /\ driver \in {"cli", "plugin"}
    /\ svgsGenerated = FALSE
    /\ buildStartCalls = 0
    /\ batchPc = "idle"
    /\ files = <<>>
    /\ batchTasks = <<>>
    /\ report = NoReport
    /\ exitCode = None

\* The driver as the specifications that do not run it hold it.
IdleBatch ==
    /\ driver = "cli"
    /\ svgsGenerated = FALSE
    /\ buildStartCalls = 0
    /\ batchPc = "idle"
    /\ files = <<>>
    /\ batchTasks = <<>>
    /\ report = NoReport
    /\ exitCode = None

IdleCache ==
    /\ likec4Instance = 0
    /\ loadsStarted = 0
    /\ callPc = [c \in Callers |-> "idle"]
    /\ callLoad = [c \in Callers |-> 0]
    /\ callResult = [c \in Callers |-> 0]

BatchInit == FsInit /\ BatchStateInit /\ IdleCache /\ IdleWatch /\ IdleScan

BatchNext ==
    \/ GenerateAll
    \/ BuildStart
    \/ Discovered
    \/ DiscoveryFailed
    \/ OutputDirCreated
    \/ OutputDirFailed
    \/ AllSettled
    \/ ProcessExit
    \/ \E i \in TaskIds : ReadFileOk(i)
    \/ \E i \in TaskIds : ReadFileFailed(i)
    \/ \E i \in TaskIds, status \in StatusCodes : FetchResponded(i, status)
    \/ \E i \in TaskIds : FetchFailed(i)
    \/ \E i \in TaskIds : TextOk(i)
    \/ \E i \in TaskIds : TextFailed(i)
    \/ \E i \in TaskIds : MkdirOk(i)
    \/ \E i \in TaskIds : MkdirFailed(i)
    \/ \E i \in TaskIds : WriteFileOk(i)
    \/ \E i \in TaskIds : WriteFileFailed(i)

SpecBatch == BatchInit /\ [][BatchNext]_vars

(***************************************************************************)
(* Claims about the batch driver and the renderer                          *)
(***************************************************************************)
FailedConversions == {k \in 1..Len(batchTasks) : tasks[batchTasks[k]].pc = "rejected"}

\* C3: for a batch run that discovered at least one file, whatever conversions
\* failed, the number reported as generated plus the number reported as failed
\* is the number of discovered .puml files (which is also the printed total).
C3_GeneratedPlusFailedIsDiscovered ==
    (batchPc = "done" /\ Len(files) > 0)
       => /\ report.kind = "tally"
          /\ report.generated + report.errors.count = Len(files)
          /\ report.total = Len(files)
          /\ report.errors.count = Cardinality(FailedConversions)

\* A finished run of three files of which some failed and some did not.
C3_Witness ==
    /\ batchPc = "done"
    /\ Len(files) = 3
    /\ report.kind = "tally"
    /\ report.errors.count = 2
    /\ report.generated = 1

\* C4: once the batch has started its conversions, the renderer has been
\* invoked exactly once for every discovered file, and every conversion that
\* has not settled can take its next step whatever state (failed, succeeded,
\* pending) the other conversions are in.
C4_EveryFileConvertedIndependently ==
    batchPc \in {"awaiting", "done"} /\ Len(files) > 0
       => /\ Len(batchTasks) = Len(files)
          /\ \A k \in 1..Len(files) :
                /\ k \in DOMAIN batchTasks
                /\ tasks[batchTasks[k]].pumlPath = files[k].fullPath
                /\ tasks[batchTasks[k]].relativePath = files[k].relativePath
                /\ Cardinality({i \in TaskIds : tasks[i].pumlPath = files[k].fullPath}) = 1
          /\ \A i \in TaskIds : ~Settled(tasks[i]) => ENABLED GenerateSvgStep(i)

\* One conversion has failed while another is still being fetched and a
\* third has been written.
C4_Witness ==
    /\ batchPc = "awaiting"
    /\ \E i, j, k \in TaskIds :
          /\ tasks[i].pc = "rejected"
          /\ tasks[j].pc = "fetch"
          /\ tasks[k].pc = "fulfilled"

\* C5: the driver throws only when discovery or the creation of the output
\* directory failed, that is before any conversion was started; once the
\* conversions have all settled, in whatever mix of failures, the driver can
\* (and does only then) complete normally.
C5_DriverSurvivesConversionFailures ==
    /\ batchPc = "threw" => tasks = <<>>
    /\ (batchPc = "awaiting" /\ \A i \in TaskIds : Settled(tasks[i])) => ENABLED AllSettled
    /\ (batchPc = "done" /\ Len(files) > 0) => \A i \in TaskIds : Settled(tasks[i])

\* The driver has completed although every one of several conversions failed.
C5_Witness ==
    /\ batchPc = "done"
    /\ Len(batchTasks) >= 2
    /\ \A k \in 1..Len(batchTasks) : tasks[batchTasks[k]].pc = "rejected"

\* C6: when the script's batch ran to its end (discovery and output directory
\* succeeded) and the process has exited, the exit status is non-zero if and
\* only if at least one conversion failed.
C6_ExitStatusReflectsFailures ==
    (driver = "cli" /\ exitCode # None /\ batchPc = "done")
       => (exitCode # <<0>> <=> FailedConversions # {})

\* C7: when discovery has resolved with no .puml file, the driver has reported
\* that and returned successfully; no renderer call has been made and no
\* artifact written.
C7_EmptyDiscoveryIsReported ==
    (batchPc \in {"mkdir", "awaiting", "done"} /\ files = <<>>)
       => /\ batchPc = "done"
          /\ report = [kind |-> "noFiles"]
          /\ tasks = <<>>
          /\ artifacts = EmptyFs

\* The driver has returned from a tree that holds files, none of them .puml.
C7_Witness ==
    /\ batchPc = "done"
    /\ tree = TreeNoMatch
    /\ report.kind = "noFiles"

\* C8: a response with a non-success status makes generateSvg reject with an
\* error that names the relative path and the status code; the step creates no
\* directory and writes no artifact, and the rejected call does nothing more.
C8_NonSuccessStatusRejects ==
    [][\A i \in TaskIds :
          /\ \A status \in StatusCodes :
                (~Ok(status) /\ FetchResponded(i, status))
                   => /\ tasks'[i].pc = "rejected"
                      /\ tasks'[i].reason.message =
                            <<"Failed to fetch ", tasks[i].relativePath, ": ", status>>
                      /\ dirs' = dirs
                      /\ artifacts' = artifacts
          /\ tasks[i].pc = "rejected" => tasks'[i] = tasks[i]]_vars

\* A conversion below a subdirectory was answered 404 and rejected, and the
\* output tree holds nothing for it.
C8_Witness ==
    \E i \in TaskIds :
        /\ tasks[i].pc = "rejected"
        /\ tasks[i].reason = FetchError(tasks[i].relativePath, 404)
        /\ Len(tasks[i].relativePath) > 2
        /\ artifacts = EmptyFs

\* The artifact path the data model prescribes for a source: the output root
\* joined with the relative path, its final .puml swapped for .svg.
ExpectedArtifact(outputDir, relativePath) ==
    outputDir \o <<SEP>> \o SubSeq(relativePath, 1, Len(relativePath) - 1) \o <<".svg">>

\* C9: a generateSvg call that succeeded has written the body of the response
\* to its request, unchanged, to the expected artifact path, and (the library
\* function) has returned that path; distinct discovered sources have distinct
\* artifact paths.
C9_ArtifactWrittenVerbatimAtMirroredPath ==
    /\ \A i \in TaskIds :
          tasks[i].pc = "fulfilled"
             => LET out == ExpectedArtifact(tasks[i].outputDir, tasks[i].relativePath)
                IN  /\ out \in DOMAIN artifacts
                    /\ artifacts[out] = Rendering(tasks[i].url)
                    /\ tasks[i].impl = "lib" => tasks[i].value = out
    /\ \A k, l \in 1..Len(files) :
          k # l => /\ files[k].relativePath # files[l].relativePath
                   /\ OutputPath(OUTPUT_DIR, files[k].relativePath)
                         # OutputPath(OUTPUT_DIR, files[l].relativePath)
    /\ Cardinality(DOMAIN artifacts)
          = Cardinality({i \in TaskIds : tasks[i].pc = "fulfilled"})

\* All three conversions of the tree with a name holding .puml twice and a
\* directory named like a diagram succeeded, through the library function.
C9_Witness ==
    /\ tree = TreeThree
    /\ driver = "plugin"
    /\ Len(tasks) = 3
    /\ \A i \in TaskIds : tasks[i].pc = "fulfilled"

(***************************************************************************)
(* The watchers: startWatcher (generate-uml.mjs) and                       *)
(* umlPlugin.configureServer (astro.config.mjs)                            *)
(***************************************************************************)
MaxEvents == 2

\* The filenames fs.watch reports (relative to UML_DIR); None is a null filename.
EventFilenames == { <<"a", ".puml">>,
                    <<"sub", SEP, "a", ".puml">>,
                    <<"sub", SEP, "notes", ".txt">>,
                    None }

\* !filename?.endsWith('.puml')
Ignored(filename) == filename = None \/ ~EndsWith(filename, ".puml")

HandlerIds == 1..Len(handlers)

\* The invocations of the listener that wait for their 100 ms timer.
Debouncing == {h \in HandlerIds : handlers[h].pc = "debounce"}

\* An invocation of the listener for the event (eventType, filename).
\* sameFileWaiting: the earlier invocations for the same file that were still
\* waiting for their timer when this event arrived.
NewHandler(filename, pc, task) ==
    [filename |-> filename, pc |-> pc, task |-> task,
     sameFileWaiting |-> {h \in Debouncing : handlers[h].filename = filename}]

\* The listener of startWatcher, up to its first await: the filter, then the
\* 100 ms timer.
StartOfListener(filename) ==
    IF Ignored(filename)
      THEN NewHandler(filename, "returned", 0)
      ELSE NewHandler(filename, "debounce", 0)

\* The file changes on disk (when the event reports a change of content).
Touch(filename, changed) ==
    IF changed /\ filename # None /\ Join(UML_DIR, filename) \in DOMAIN sources
      THEN [sources EXCEPT ![Join(UML_DIR, filename)] = @ + 1]
      ELSE sources

\* Main of the script: `if (process.argv.includes('--watch')) startWatcher()`,
\* reached when generateAll has returned.
StartWatcher ==
    /\ driver = "cli"
    /\ batchPc = "done"
    /\ exitCode = None
    /\ watcher = "none"
    /\ watcher' = "open"
    /\ UNCHANGED <<handlers, reloads, errorsLogged, httpServer, devServer, fsVars, batchVars,
                   cacheVars, scanVars>>

\* configureServer of the plugin: the subscription, and its close on the
\* close of server.httpServer when there is one.
ConfigureServer ==
    /\ driver = "plugin"
    /\ watcher = "none"
    /\ watcher' = "open"
    /\ UNCHANGED <<handlers, reloads, errorsLogged, httpServer, devServer, fsVars, batchVars,
                   cacheVars, scanVars>>

\* fs.watch calls the script's listener.
WatchEventCli(filename, changed) ==
    /\ driver = "cli"
    /\ watcher = "open"
    /\ Len(handlers) < MaxEvents
    /\ sources' = Touch(filename, changed)
    /\ handlers' = Append(handlers, StartOfListener(filename))
    /\ UNCHANGED <<watcher, reloads, errorsLogged, httpServer, devServer, tree, dirs, artifacts,
                   tasks, batchVars, cacheVars, scanVars>>

\* The script's timer fires (timers of equal delay fire in the order they
\* were set): generateSvg is called and awaited.
DebounceElapsed(h) ==
    /\ handlers[h].pc = "debounce"
    /\ \A g \in Debouncing : h <= g
    /\ tasks' = Append(tasks, NewTask("script", "watch",
                                      Join(UML_DIR, handlers[h].filename),
                                      handlers[h].filename, OUTPUT_DIR))
    /\ handlers' = [handlers EXCEPT ![h].pc = "rendering", ![h].task = Len(tasks) + 1]
    /\ UNCHANGED <<watcher, reloads, errorsLogged, httpServer, devServer, tree, sources, dirs,
                   artifacts, batchVars, cacheVars, scanVars>>

\* fs.watch calls the plugin's listener: the filter, then generateSvg is
\* called and awaited at once.
WatchEventPlugin(filename, changed) ==
    /\ driver = "plugin"
    /\ watcher = "open"
    /\ Len(handlers) < MaxEvents
    /\ sources' = Touch(filename, changed)
    /\ IF Ignored(filename)
         THEN /\ handlers' = Append(handlers, NewHandler(filename, "returned", 0))
              /\ UNCHANGED tasks
         ELSE /\ tasks' = Append(tasks, NewTask("lib", "watch", Join(UML_DIR, filename),
                                                filename, OUTPUT_DIR))
              /\ handlers' = Append(handlers,
                                    NewHandler(filename, "rendering", Len(tasks) + 1))
    /\ UNCHANGED <<watcher, reloads, errorsLogged, httpServer, devServer, tree, dirs, artifacts,
                   batchVars, cacheVars, scanVars>>

\* The awaited generateSvg resolved: the plugin sends full-reload, the script
\* has nothing more to do.
RenderSucceeded(h) ==
    /\ handlers[h].pc = "rendering"
    /\ tasks[handlers[h].task].pc = "fulfilled"
    /\ handlers' = [handlers EXCEPT ![h].pc = "done"]
    /\ reloads' = IF driver = "plugin" THEN Append(reloads, h) ELSE reloads
    /\ UNCHANGED <<watcher, errorsLogged, httpServer, devServer, fsVars, batchVars, cacheVars,
                   scanVars>>

\* A listener that sends full-reload from its catch block as well.
RenderFailedReloading(h) ==
    /\ handlers[h].pc = "rendering"
    /\ tasks[handlers[h].task].pc = "rejected"
    /\ handlers' = [handlers EXCEPT ![h].pc = "caught"]
    /\ errorsLogged' = Append(errorsLogged, tasks[handlers[h].task].reason.message)
    /\ reloads' = IF driver = "plugin" THEN Append(reloads, h) ELSE reloads
    /\ UNCHANGED <<watcher, httpServer, devServer, fsVars, batchVars, cacheVars, scanVars>>

\* A listener without the try/catch: the rejection is unhandled and ends the
\* process, and the subscription with it.
RenderFailedUncaught(h) ==
    /\ handlers[h].pc = "rendering"
    /\ tasks[handlers[h].task].pc = "rejected"
    /\ handlers' = [handlers EXCEPT ![h].pc = "caught"]
    /\ watcher' = "closed"
    /\ UNCHANGED <<reloads, errorsLogged, httpServer, devServer, fsVars, batchVars, cacheVars,
                   scanVars>>

\* The awaited generateSvg rejected: the catch block logs the error.
RenderFailed(h) ==
    /\ handlers[h].pc = "rendering"
    /\ tasks[handlers[h].task].pc = "rejected"
    /\ handlers' = [handlers EXCEPT ![h].pc = "caught"]
    /\ errorsLogged' = Append(errorsLogged, tasks[handlers[h].task].reason.message)
    /\ UNCHANGED <<watcher, reloads, httpServer, devServer, fsVars, batchVars, cacheVars, scanVars>>

\* The dev server is closed and with it its http server: the handler
\* registered with server.httpServer?.on('close', ...) closes the subscription.
HttpServerClosed ==
    /\ driver = "plugin"
    /\ watcher = "open"
    /\ httpServer = "listening"
    /\ httpServer' = "closed"
    /\ devServer' = "closed"
    /\ watcher' = "closed"
    /\ UNCHANGED <<handlers, reloads, errorsLogged, fsVars, batchVars, cacheVars, scanVars>>

\* The dev server is closed when server.httpServer is null (middleware
\* mode): `server.httpServer?.on(...)` registered nothing, so nothing closes
\* the subscription.
ServerClosedWithoutHttpServer ==
    /\ driver = "plugin"
    /\ watcher = "open"
    /\ httpServer = "none"
    /\ devServer = "running"
    /\ devServer' = "closed"
    /\ UNCHANGED <<watcher, handlers, reloads, errorsLogged, httpServer, fsVars, batchVars,
                   cacheVars, scanVars>>

\* A generateSvg call of the batch that ran to its end without a failure.
Fulfilled(t) ==
    LET content == [path |-> t.pumlPath, version |-> 1]
        outputPath == OutputPath(t.outputDir, t.relativePath)
    IN  [t EXCEPT !.pc = "fulfilled", !.url = Url(Encode(content)),
                  !.svg = Rendering(Url(Encode(content))), !.outputPath = outputPath,
                  !.value = ReturnValue(t.impl, outputPath)]

WatchFiles == FindPumlFiles(TreeTwo, UML_DIR, UML_DIR)

\* The script starts its watcher after a batch run: here the run over TreeTwo
\* in which both conversions succeeded.
WatchInitCli ==
    /\ driver = "cli"
    /\ svgsGenerated = FALSE
    /\ buildStartCalls = 0
    /\ batchPc = "done"
    /\ files = WatchFiles
    /\ tasks = [k \in 1..Len(WatchFiles) |-> Fulfilled(StartConversions("cli", WatchFiles)[k])]
    /\ batchTasks = [k \in 1..Len(WatchFiles) |-> k]
    /\ report = [kind |-> "tally", errors |-> [count |-> 0, messages |-> <<>>],
                 generated |-> Len(WatchFiles), total |-> Len(WatchFiles)]
    /\ exitCode = None
    /\ dirs = UNION {MkdirP(Dirname(tasks[k].outputPath)) : k \in 1..Len(WatchFiles)}
    /\ artifacts = [p \in {tasks[k].outputPath : k \in 1..Len(WatchFiles)} |->
                       LET k == CHOOSE k \in 1..Len(WatchFiles) : tasks[k].outputPath = p
                       IN  tasks[k].svg]
    /\ httpServer = "none"
    /\ devServer = "none"

\* The dev server calls configureServer before any build: nothing generated
\* yet.  server.httpServer is null in middleware mode.
WatchInitPlugin ==
    /\ driver = "plugin"
    /\ svgsGenerated = FALSE
    /\ buildStartCalls = 0
    /\ batchPc = "idle"
    /\ files = <<>>
    /\ tasks = <<>>
    /\ batchTasks = <<>>
    /\ report = NoReport
    /\ exitCode = None
    /\ dirs = {}
    /\ artifacts = EmptyFs
    /\ httpServer \in {"none", "listening"}
    /\ devServer = "running"

WatchInit ==
    /\ IdleCache
    /\ IdleScan
    /\ tree = TreeTwo
    /\ sources = [p \in SourcePaths(TreeTwo, UML_DIR) |-> 1]
    /\ watcher = "none"
    /\ handlers = <<>>
    /\ reloads = <<>>
    /\ errorsLogged = <<>>
    /\ (WatchInitCli \/ WatchInitPlugin)

WatchNext ==
    \/ StartWatcher
    \/ ConfigureServer
    \/ \E filename \in EventFilenames : WatchEventCli(filename, FALSE)
    \/ \E h \in HandlerIds : DebounceElapsed(h)
    \/ \E filename \in EventFilenames : WatchEventPlugin(filename, FALSE)
    \/ \E h \in HandlerIds : RenderSucceeded(h)
    \/ \E h \in HandlerIds : RenderFailed(h)
    \/ HttpServerClosed
    \/ ServerClosedWithoutHttpServer
    \/ \E i \in TaskIds : ReadFileOk(i)
    \/ \E i \in TaskIds : ReadFileFailed(i)
    \/ \E i \in TaskIds, status \in StatusCodes : FetchResponded(i, status)
    \/ \E i \in TaskIds : FetchFailed(i)
    \/ \E i \in TaskIds : TextOk(i)
    \/ \E i \in TaskIds : TextFailed(i)
    \/ \E i \in TaskIds : MkdirOk(i)
    \/ \E i \in TaskIds : MkdirFailed(i)
    \/ \E i \in TaskIds : WriteFileOk(i)
    \/ \E i \in TaskIds : WriteFileFailed(i)

\* Every kind of event, the content of the files left as it is.
SpecWatch == WatchInit /\ [][WatchNext]_vars

\* The file whose edits SpecWatchEdits follows.
EditedFile == <<"a", ".puml">>

WatchEditsNext ==
    \/ StartWatcher
    \/ ConfigureServer
    \/ \E changed \in BOOLEAN : WatchEventCli(EditedFile, changed)
    \/ \E h \in HandlerIds : DebounceElapsed(h)
    \/ \E changed \in BOOLEAN : WatchEventPlugin(EditedFile, changed)
    \/ \E h \in HandlerIds : RenderSucceeded(h)
    \/ \E h \in HandlerIds : RenderFailed(h)
    \/ \E i \in TaskIds : ReadFileOk(i)
    \/ \E i \in TaskIds : ReadFileFailed(i)
    \/ \E i \in TaskIds, status \in StatusCodes : FetchResponded(i, status)
    \/ \E i \in TaskIds : FetchFailed(i)
    \/ \E i \in TaskIds : TextOk(i)
    \/ \E i \in TaskIds : TextFailed(i)
    \/ \E i \in TaskIds : MkdirOk(i)
    \/ \E i \in TaskIds : MkdirFailed(i)
    \/ \E i \in TaskIds : WriteFileOk(i)
    \/ \E i \in TaskIds : WriteFileFailed(i)

\* The events of one file, each with or without a change of its content.
SpecWatchEdits == WatchInit /\ [][WatchEditsNext]_vars

(***************************************************************************)
(* Claims about the watchers                                               *)
(***************************************************************************)
\* C10: of the events for one .puml file that arrive within one debounce
\* window (a later event arrives while an earlier one for the same file still
\* waits for its timer) only one leads to a render of the file.
C10_EventsInOneWindowRenderOnce ==
    \A g, h \in HandlerIds :
        (g \in handlers[h].sameFileWaiting) => ~(handlers[g].task # 0 /\ handlers[h].task # 0)

\* The invocations of the listener that have not run to their end.
Unfinished == {h \in HandlerIds : handlers[h].pc \in {"debounce", "rendering"}}

\* The invocations whose render is under way: the timer runs, or the
\* generateSvg call has not settled.
RenderInProgress ==
    {h \in HandlerIds :
        \/ handlers[h].pc = "debounce"
        \/ handlers[h].pc = "rendering" /\ ~Settled(tasks[handlers[h].task])}

\* C11: the watcher handles one event at a time: at most one render started by
\* the watcher (debounce wait, request or write) is in progress, and an event's
\* handling starts only when the handling of the event before it has finished
\* (an unfinished invocation is the one of the last event received).
C11_OneEventAtATime ==
    /\ Cardinality(RenderInProgress) <= 1
    /\ \A h \in Unfinished : h = Len(handlers)

\* The events received in a step.
Received == (1..Len(handlers')) \ HandlerIds

\* C12: an event that names a .puml file makes the watcher wait the debounce
\* interval and only then call the renderer, once, for that file and no other;
\* the watcher starts a render at no other time; an event with no filename or
\* with another suffix starts no render and sends no reload.
C12_DebounceThenRenderTheNamedFile ==
    [][/\ \A h \in Received :
             IF Ignored(handlers'[h].filename)
               THEN /\ handlers'[h].pc = "returned"
                    /\ handlers'[h].task = 0
                    /\ tasks' = tasks
                    /\ reloads' = reloads
               ELSE /\ handlers'[h].pc = "debounce"
                    /\ tasks' = tasks
       /\ \A h \in HandlerIds :
             (handlers[h].pc = "debounce" /\ handlers'[h].pc # "debounce")
                => /\ Len(tasks') = Len(tasks) + 1
                   /\ handlers'[h].task = Len(tasks')
                   /\ tasks'[Len(tasks')].pumlPath = Join(UML_DIR, handlers[h].filename)
                   /\ tasks'[Len(tasks')].relativePath = handlers[h].filename
       /\ Len(tasks') > Len(tasks)
             => \E h \in HandlerIds : handlers[h].pc = "debounce" /\ handlers'[h].pc = "rendering"
      ]_vars

\* The invocations of the listener that have sent full-reload.
Reloaded == {reloads[k] : k \in 1..Len(reloads)}

\* C13: the dev server's watcher sends full-reload exactly for the renders that
\* succeeded: one signal per invocation whose generateSvg call resolved, sent
\* when the artifact is on disk, and none for an invocation whose call rejected
\* or that started no render.
C13_ReloadExactlyAfterSuccess ==
    driver = "plugin" =>
        /\ \A k, l \in 1..Len(reloads) : reloads[k] = reloads[l] => k = l
        /\ Reloaded = {h \in HandlerIds : handlers[h].pc = "done"}
        /\ \A h \in Reloaded :
              LET t == tasks[handlers[h].task]
              IN  /\ t.pc = "fulfilled"
                  /\ t.relativePath = handlers[h].filename
                  /\ t.outputPath \in DOMAIN artifacts
                  /\ artifacts[t.outputPath] = t.svg
        /\ \A h \in HandlerIds :
              (handlers[h].task # 0 /\ tasks[handlers[h].task].pc = "fulfilled")
                 => handlers[h].pc \in {"rendering", "done"}

\* Two events: the render of one succeeded and its reload was sent, the render
\* of the other failed and was logged.
C13_Witness ==
    /\ driver = "plugin"
    /\ Len(reloads) = 1
    /\ \E h \in HandlerIds : handlers[h].pc = "caught"
    /\ Len(errorsLogged) = 1

\* C14: a failed render does not end the watch: once the listener has caught a
\* failure the subscription is open as long as the http server has not closed
\* it, an event for a .puml file is still received and starts its handling
\* (timer or render), and a timer that runs still leads to the render.
C14_FailedRenderKeepsWatching ==
    (\E g \in HandlerIds : handlers[g].pc = "caught") =>
        /\ httpServer # "closed" => watcher = "open"
        /\ (watcher = "open" /\ Len(handlers) < MaxEvents) =>
              \A filename \in EventFilenames :
                  ~Ignored(filename) =>
                      ENABLED (/\ \/ WatchEventCli(filename, FALSE)
                                  \/ WatchEventPlugin(filename, FALSE)
                               /\ handlers'[Len(handlers')].filename = filename
                               /\ handlers'[Len(handlers')].pc \in {"debounce", "rendering"})
        /\ Debouncing # {} => \E h \in Debouncing : ENABLED DebounceElapsed(h)

\* The render of the first event failed and was caught; the render of a second
\* event, for a .puml file, has just been started.
C14_Witness ==
    /\ watcher = "open"
    /\ Len(handlers) = 2
    /\ handlers[1].pc = "caught"
    /\ handlers[2].pc = "rendering"
    /\ tasks[handlers[2].task].origin = "watch"
    /\ tasks[handlers[2].task].pc = "readFile"
    /\ handlers[2].task > handlers[1].task

\* C15: the subscription is closed when the dev server that owns it has ended:
\* from then on it is not open and the watcher starts no render.
C15_SubscriptionClosedAtSessionEnd ==
    [][devServer = "closed" => (watcher # "open" /\ Len(tasks') = Len(tasks))]_vars

(***************************************************************************)
(* The directory scans as functions of the tree                            *)
(***************************************************************************)
\* const umlSidebarItems = generateUmlSidebar('../uml')
CallGenerateUmlSidebar ==
    /\ "generateUmlSidebar" \notin scanCalls
    /\ sidebarItems' = GenerateUmlSidebar(scanTree, sidebarDir, sidebarDir, URL_BASE)
    /\ scanCalls' = scanCalls \cup {"generateUmlSidebar"}
    /\ UNCHANGED <<sidebarDir, scanTree, pumlFiles, docs, refQuery, references, fsVars,
                   batchVars, watchVars, cacheVars>>

\* await findPumlFiles(UML_DIR)
CallFindPumlFiles ==
    /\ "findPumlFiles" \notin scanCalls
    /\ pumlFiles' = FindPumlFiles(scanTree, UML_DIR, UML_DIR)
    /\ scanCalls' = scanCalls \cup {"findPumlFiles"}
    /\ UNCHANGED <<sidebarDir, scanTree, sidebarItems, docs, refQuery, references, fsVars,
                   batchVars, watchVars, cacheVars>>

ScanInit ==
    /\ IdleCache /\ IdleFs /\ IdleBatch /\ IdleWatch
    /\ sidebarDir \in SidebarDirs
    /\ scanTree \in ScanTrees
    /\ scanCalls = {}
    /\ sidebarItems = <<>>
    /\ pumlFiles = <<>>
    /\ docs = <<>>
    /\ refQuery = <<>>
    /\ references = <<>>

ScanNext ==
    \/ CallGenerateUmlSidebar
    \/ CallFindPumlFiles

SpecScan == ScanInit /\ [][ScanNext]_vars

(***************************************************************************)
(* Claims about the directory scans                                        *)
(***************************************************************************)
\* Whether a directory holds a .puml file at any depth.
RECURSIVE ContainsPuml(_)
ContainsPuml(entries) ==
    \E i \in 1..Len(entries) :
        IF entries[i].isDir THEN ContainsPuml(entries[i].children)
                            ELSE EndsWith(entries[i].name, ".puml")

\* The subdirectories (each as the names from the root down to it) that hold
\* a .puml file at any depth.
RECURSIVE DirsWithPuml(_, _)
DirsWithPuml(entries, above) ==
    UNION { IF entries[i].isDir
              THEN (IF ContainsPuml(entries[i].children)
                      THEN {Append(above, entries[i].name)} ELSE {})
                   \cup DirsWithPuml(entries[i].children, Append(above, entries[i].name))
              ELSE {} : i \in 1..Len(entries) }

\* The groups of a result (each as the labels from the top down to it).
RECURSIVE Groups(_, _)
Groups(items, above) ==
    UNION { IF IsGroup(items[i])
              THEN {Append(above, items[i].label)}
                   \cup Groups(items[i].items, Append(above, items[i].label))
              ELSE {} : i \in 1..Len(items) }

RECURSIVE NoEmptyGroup(_)
NoEmptyGroup(items) ==
    \A i \in 1..Len(items) :
        IsGroup(items[i]) => (items[i].items # <<>> /\ NoEmptyGroup(items[i].items))

\* C16: the result of generateUmlSidebar has no group with an empty items list
\* at any depth, and its groups are exactly the subdirectories that hold a
\* .puml file somewhere below them.
C16_GroupsAreTheDirectoriesWithDiagrams ==
    "generateUmlSidebar" \in scanCalls =>
        /\ NoEmptyGroup(sidebarItems)
        /\ Groups(sidebarItems, <<>>) = DirsWithPuml(scanTree, <<>>)

\* A tree with a directory that is kept and a non-empty directory that is
\* pruned, because nothing below it is a .puml file.
C16_Witness ==
    /\ "generateUmlSidebar" \in scanCalls
    /\ \E i \in 1..Len(scanTree) :
          /\ scanTree[i].isDir
          /\ scanTree[i].children # <<>>
          /\ ~ContainsPuml(scanTree[i].children)
    /\ \E i \in 1..Len(sidebarItems) : IsGroup(sidebarItems[i])

\* label.toLowerCase()
ToLowerCase(label) ==
    [i \in 1..Len(label) |->
        IF label[i] = "A" THEN "a" ELSE IF label[i] = "B" THEN "b" ELSE label[i]]

\* The comparison of two labels that disregards case.
CaseInsensitiveCompare(a, b) ==
    LexCompare(Weights(CodeUnit, ToLowerCase(a)), Weights(CodeUnit, ToLowerCase(b)))

RECURSIVE SortedAtEveryLevel(_)
SortedAtEveryLevel(items) ==
    /\ \A i \in 1..(Len(items) - 1) :
          CaseInsensitiveCompare(items[i].label, items[i + 1].label) <= 0
    /\ \A i \in 1..Len(items) : IsGroup(items[i]) => SortedAtEveryLevel(items[i].items)

\* C17: at every level of the result of generateUmlSidebar the siblings, groups
\* and leaves alike, are in ascending order of their labels compared without
\* regard to case.
C17_SiblingsSortedCaseInsensitively ==
    "generateUmlSidebar" \in scanCalls => SortedAtEveryLevel(sidebarItems)

\* readdir listed B.puml first; the result has a group between two leaves, and
\* the leaf B comes last.
C17_Witness ==
    /\ "generateUmlSidebar" \in scanCalls
    /\ Len(scanTree) = 3
    /\ scanTree[1].name = <<"B", ".puml">>
    /\ Len(sidebarItems) = 3
    /\ ~IsGroup(sidebarItems[1]) /\ IsGroup(sidebarItems[2]) /\ ~IsGroup(sidebarItems[3])
    /\ sidebarItems[3].label = <<"B">>

\* The links of the leaves of a result, in the order of the result.
RECURSIVE Links(_)
Links(items) ==
    IF items = <<>> THEN <<>>
    ELSE (IF IsGroup(Head(items)) THEN Links(Head(items).items) ELSE <<Head(items).link>>)
            \o Links(Tail(items))

\* The .puml files of a tree, each as its path relative to the root.
RECURSIVE PumlRelativePaths(_)
PumlRelativePaths(entries) ==
    UNION { IF entries[i].isDir
              THEN {Join(entries[i].name, p) : p \in PumlRelativePaths(entries[i].children)}
              ELSE IF EndsWith(entries[i].name, ".puml") THEN {entries[i].name} ELSE {}
            : i \in 1..Len(entries) }

\* C18: the links of the leaves are urlBase + '/' + the path of the file
\* relative to the scanned root, without the .puml suffix, one leaf for every
\* .puml file, and no two leaves have the same link.
C18_LinksAreRelativePathsAndUnique ==
    "generateUmlSidebar" \in scanCalls =>
        LET links == Links(sidebarItems)
        IN  /\ \A i, j \in 1..Len(links) : links[i] = links[j] => i = j
            /\ {links[i] : i \in 1..Len(links)}
                  = {URL_BASE \o <<SEP>> \o SubSeq(p, 1, Len(p) - 1) :
                        p \in PumlRelativePaths(scanTree)}

\* Two files of the same name, one in the root and one in a subdirectory,
\* and a file whose name holds .puml twice.
C18_Witness ==
    /\ "generateUmlSidebar" \in scanCalls
    /\ <<"a", ".puml">> \in PumlRelativePaths(scanTree)
    /\ <<"a", ".puml", ".puml">> \in PumlRelativePaths(scanTree)
    /\ \E p \in PumlRelativePaths(scanTree) :
          Len(p) = 4 /\ SubSeq(p, 3, 4) = <<"a", ".puml">>
    /\ Len(Links(sidebarItems)) = 3

\* C19: findPumlFiles returns one entry for every file, at any depth, whose
\* name ends in .puml, and none for other files or for directories; the
\* relativePath of an entry is its fullPath relative to the root; the result
\* for a tree without such a file is empty.
C19_FindPumlFilesListsExactlyThePumlFiles ==
    "findPumlFiles" \in scanCalls =>
        /\ \A i, j \in 1..Len(pumlFiles) :
              pumlFiles[i].fullPath = pumlFiles[j].fullPath => i = j
        /\ {pumlFiles[i].fullPath : i \in 1..Len(pumlFiles)}
              = {p \in SourcePaths(scanTree, UML_DIR) : EndsWith(p, ".puml")}
        /\ \A i \in 1..Len(pumlFiles) :
              Join(UML_DIR, pumlFiles[i].relativePath) = pumlFiles[i].fullPath
        /\ ~ContainsPuml(scanTree) => pumlFiles = <<>>

\* A tree with a directory whose own name ends in .puml, a file of another
\* suffix and a .puml file two directories down.
C19_Witness ==
    /\ "findPumlFiles" \in scanCalls
    /\ \E i \in 1..Len(scanTree) : scanTree[i].isDir /\ EndsWith(scanTree[i].name, ".puml")
    /\ \E i \in 1..Len(scanTree) : scanTree[i].name = <<"c", ".txt">>
    /\ \E i \in 1..Len(pumlFiles) : Len(pumlFiles[i].relativePath) = 6

(***************************************************************************)
(* The reference scans as functions of the pages                           *)
(***************************************************************************)
\* await findDiagramReferences(diagramFile, docsDir)
CallFindDiagramReferences ==
    /\ refQuery.fn = "findDiagramReferences"
    /\ refQuery.fn \notin scanCalls
    /\ references' = FindDiagramReferences(refQuery.id, docs, DOCS_DIR)
    /\ scanCalls' = scanCalls \cup {refQuery.fn}
    /\ UNCHANGED <<sidebarDir, scanTree, sidebarItems, pumlFiles, docs, refQuery, fsVars,
                   batchVars, watchVars, cacheVars>>

\* await findC4ViewReferences(projectName, viewId, docsDir)
CallFindC4ViewReferences ==
    /\ refQuery.fn = "findC4ViewReferences"
    /\ refQuery.fn \notin scanCalls
    /\ references' = FindC4ViewReferences(refQuery.projectName, refQuery.id, docs, DOCS_DIR)
    /\ scanCalls' = scanCalls \cup {refQuery.fn}
    /\ UNCHANGED <<sidebarDir, scanTree, sidebarItems, pumlFiles, docs, refQuery, fsVars,
                   batchVars, watchVars, cacheVars>>

RefsInit ==
    /\ IdleCache /\ IdleFs /\ IdleBatch /\ IdleWatch
    /\ sidebarDir = <<>>
    /\ scanTree = <<>>
    /\ scanCalls = {}
    /\ sidebarItems = <<>>
    /\ pumlFiles = <<>>
    /\ docs \in DocsTrees
    /\ refQuery \in RefQueries
    /\ references = <<>>

RefsNext ==
    \/ CallFindDiagramReferences
    \/ CallFindC4ViewReferences

SpecRefs == RefsInit /\ [][RefsNext]_vars

(***************************************************************************)
(* Claims about the reference scans                                        *)
(***************************************************************************)
\* The pages (.md, .mdx) of a tree, each with its path relative to the root
\* and what it embeds.
RECURSIVE Pages(_, _)
Pages(entries, above) ==
    UNION { IF entries[i].isDir
              THEN Pages(entries[i].children, above \o entries[i].name \o <<SEP>>)
              ELSE IF EndsWith(entries[i].name, ".mdx") \/ EndsWith(entries[i].name, ".md")
                     THEN {[filePath |-> above \o entries[i].name, parts |-> entries[i].parts]}
                     ELSE {}
            : i \in 1..Len(entries) }

\* Whether e embeds what the call asks for: the diagram with that file
\* identifier, or the view with that id through a C4View component.
EmbedsTarget(e, query) ==
    /\ e.id = query.id
    /\ e.style \in Styles
    /\ IF query.fn = "findDiagramReferences"
         THEN e.component = <<"PlantUML">> /\ e.attr = "file="
         ELSE e.component \in {<<"C4View">>, GetComponentName(query.projectName)}
                 /\ e.attr = "viewId="

\* C20: the reference scans return exactly the pages (.md, .mdx) below the
\* page root that hold an embed of the identifier asked for, whatever its
\* quoting (double quotes, single quotes, template literal in braces), each
\* page once; so none when no page holds the identifier, and not a page that
\* embeds only other identifiers, be the one asked for a proper prefix or
\* suffix of them.
C20_ExactlyThePagesEmbeddingTheTarget ==
    refQuery.fn \in scanCalls =>
        /\ \A i, j \in 1..Len(references) :
              references[i].filePath = references[j].filePath => i = j
        /\ {references[i].filePath : i \in 1..Len(references)}
              = {pg.filePath : pg \in {pg \in Pages(docs, <<>>) :
                                          \E k \in 1..Len(pg.parts) :
                                              EmbedsTarget(pg.parts[k], refQuery)}}

\* C21: the slug of every reference is the path of the page relative to the
\* page root without the .md/.mdx extension, and for a page named index the
\* path of its directory (the empty path for the page root), for an index
\* page in a subdirectory as for the index page of the page root.
C21_SlugCollapsesIndexPages ==
    refQuery.fn \in scanCalls =>
        \A i \in 1..Len(references) :
            LET filePath == references[i].filePath
                stem == SubSeq(filePath, 1, Len(filePath) - 1)
                seps == SepPositions(stem)
            IN  references[i].slug =
                    IF stem[Len(stem)] = "index"
                      THEN IF seps = {} THEN <<>> ELSE SubSeq(stem, 1, Max(seps) - 1)
                      ELSE stem

\* C25: on one umlPlugin instance the batch generation runs at most once,
\* however many buildStart calls there are and however they overlap: the call
\* sets svgsGenerated before its first suspension point and the flag is never
\* reset, discovery starts in the first call only, and every later call returns
\* with nothing discovered, rendered or written.
C25_BatchRunsAtMostOnce ==
    [][driver = "plugin" =>
          /\ svgsGenerated => svgsGenerated'
          /\ buildStartCalls' # buildStartCalls => svgsGenerated'
          /\ (buildStartCalls' # buildStartCalls /\ buildStartCalls > 0)
                => UNCHANGED <<batchPc, files, batchTasks, report, fsVars>>
          /\ (batchPc' = "discovering" /\ batchPc # "discovering")
                => (buildStartCalls = 0 /\ buildStartCalls' = 1)]_vars

\* A second buildStart call has returned while the run of the first is
\* suspended in its conversions.
C25_Witness ==
    /\ driver = "plugin"
    /\ buildStartCalls >= 2
    /\ svgsGenerated
    /\ batchPc = "awaiting"
    /\ \E k \in 1..Len(batchTasks) : ~Settled(tasks[batchTasks[k]])
    /\ Len(batchTasks) = Len(files)

\* C22: when the renders the watcher started for the edits of one file have
\* all succeeded, the artifact on disk is the rendering of the file's latest
\* content: no render that read older content overwrites the artifact of a
\* render that read newer content.
C22_ArtifactIsRenderingOfLatestContent ==
    LET watcherRenders ==
            {i \in TaskIds : tasks[i].origin = "watch" /\ tasks[i].relativePath = EditedFile}
        latest == [path |-> Join(UML_DIR, EditedFile),
                   version |-> sources[Join(UML_DIR, EditedFile)]]
    IN  (/\ watcherRenders # {}
         /\ \A h \in HandlerIds : handlers[h].pc \in {"returned", "done"}
         /\ \A i \in watcherRenders : tasks[i].pc = "fulfilled")
           => /\ OutputPath(OUTPUT_DIR, EditedFile) \in DOMAIN artifacts
              /\ artifacts[OutputPath(OUTPUT_DIR, EditedFile)] = Rendering(Url(Encode(latest)))

\* C23: findC4ViewReferences returns only pages that embed the view asked for
\* through the component of the project asked for (or the generic C4View): a
\* page that embeds only the view of that id of another project is not
\* returned.
C23_OnlyPagesOfTheProject ==
    (refQuery.fn = "findC4ViewReferences" /\ refQuery.fn \in scanCalls)
        => \A i \in 1..Len(references) :
              \E pg \in Pages(docs, <<>>) :
                 /\ pg.filePath = references[i].filePath
                 /\ \E k \in 1..Len(pg.parts) : EmbedsTarget(pg.parts[k], refQuery)

\* C24: the project's component name that findC4ViewReferences searches for
\* is getComponentName of the project id, also for an id with hyphens.
C24_SearchedNameIsGetComponentName ==
    (refQuery.fn = "findC4ViewReferences" /\ refQuery.fn \in scanCalls)
        => ComponentNames(refQuery.projectName)[1] = GetComponentName(refQuery.projectName)

(***************************************************************************)
(* likec4.mjs: getLikeC4Instance                                           *)
(***************************************************************************)
Null == 0

\* LikeC4.fromWorkspace(...): every call builds a new instance; the handle of
\* the n-th load is n.
FromWorkspace(n) == n

\* getLikeC4Instance without the test of the cache: every call loads.
GetLikeC4InstanceAlwaysLoads(c) ==
    /\ callPc[c] = "idle"
    /\ loadsStarted' = loadsStarted + 1
    /\ callLoad' = [callLoad EXCEPT ![c] = FromWorkspace(loadsStarted + 1)]
    /\ callPc' = [callPc EXCEPT ![c] = "loading"]
    /\ UNCHANGED <<likec4Instance, callResult, fsVars, batchVars, watchVars, scanVars>>

\* The synchronous part of getLikeC4Instance, up to its await: the test of
\* the cache and, on a miss, the start of a load.
GetLikeC4Instance(c) ==
    /\ callPc[c] = "idle"
    /\ IF likec4Instance = Null
         THEN /\ loadsStarted' = loadsStarted + 1
              /\ callLoad' = [callLoad EXCEPT ![c] = FromWorkspace(loadsStarted + 1)]
              /\ callPc' = [callPc EXCEPT ![c] = "loading"]
              /\ UNCHANGED <<likec4Instance, callResult>>
         ELSE /\ callResult' = [callResult EXCEPT ![c] = likec4Instance]
              /\ callPc' = [callPc EXCEPT ![c] = "done"]
              /\ UNCHANGED <<likec4Instance, loadsStarted, callLoad>>
    /\ UNCHANGED <<fsVars, batchVars, watchVars, scanVars>>

\* The continuation after the await: the assignment to the cache and the
\* return of the cache's value.
LoadResolved(c) ==
    /\ callPc[c] = "loading"
    /\ likec4Instance' = callLoad[c]
    /\ callResult' = [callResult EXCEPT ![c] = callLoad[c]]
    /\ callPc' = [callPc EXCEPT ![c] = "done"]
    /\ UNCHANGED <<loadsStarted, callLoad, fsVars, batchVars, watchVars, scanVars>>

\* The rejection handled as if the load had produced a handle: the cache is
\* assigned before the error leaves.
LoadRejectedCachingTheHandle(c) ==
    /\ callPc[c] = "loading"
    /\ likec4Instance' = callLoad[c]
    /\ callPc' = [callPc EXCEPT ![c] = "failed"]
    /\ UNCHANGED <<loadsStarted, callLoad, callResult, fsVars, batchVars, watchVars, scanVars>>

\* The awaited load rejects: the assignment is never reached and the error
\* leaves getLikeC4Instance.
LoadRejected(c) ==
    /\ callPc[c] = "loading"
    /\ callPc' = [callPc EXCEPT ![c] = "failed"]
    /\ UNCHANGED <<likec4Instance, loadsStarted, callLoad, callResult, fsVars, batchVars, watchVars,
                   scanVars>>

CacheInit ==
    /\ IdleFs /\ IdleBatch /\ IdleWatch /\ IdleScan
    /\ likec4Instance = Null
    /\ loadsStarted = 0
    /\ callPc = [c \in Callers |-> "idle"]
    /\ callLoad = [c \in Callers |-> 0]
    /\ callResult = [c \in Callers |-> 0]

CacheNext ==
    \E c \in Callers :
        \/ GetLikeC4Instance(c)
        \/ LoadResolved(c)
        \/ LoadRejected(c)

SpecCache == CacheInit /\ [][CacheNext]_vars

(***************************************************************************)
(* Claims about the cached workspace handle                                *)
(***************************************************************************)
\* C1: the workspace load is single-flight: of calls that overlap in time at
\* most one load is in progress (LikeC4.fromWorkspace is not started again
\* while a load is awaited), and all callers that have received a handle have
\* received the same one.
C1_SingleFlight ==
    /\ Cardinality({c \in Callers : callPc[c] = "loading"}) <= 1
    /\ \A c, d \in Callers :
          (callPc[c] = "done" /\ callPc[d] = "done") => callResult[c] = callResult[d]

\* C2: a call that starts when an earlier call has completed successfully (the
\* cache holds its handle) returns that very handle at once and starts no
\* load: the load count is unchanged by it, and so is the cache.
C2_SecondCallReturnsCachedHandle ==
    [][\A c \in Callers :
          (callPc[c] = "idle" /\ callPc'[c] # "idle" /\ likec4Instance # Null)
             => /\ callPc'[c] = "done"
                /\ callResult'[c] = likec4Instance
                /\ loadsStarted' = loadsStarted
                /\ likec4Instance' = likec4Instance]_vars

\* Two calls, one after the other: the first loaded, the second was served
\* from the cache, one load in all.
C2_Witness ==
    \E c, d \in Callers :
        /\ c # d
        /\ callPc[c] = "done" /\ callLoad[c] = 1
        /\ callPc[d] = "done" /\ callLoad[d] = 0
        /\ callResult[c] = callResult[d]
        /\ loadsStarted = 1

\* C26: a load that fails gives its error to the caller of getLikeC4Instance
\* and caches nothing: the failing call returns no handle and leaves the cache
\* as it was, the cache never holds the handle of a failed load (it is empty
\* unless another call's load succeeded), and a call that finds the cache
\* empty, also after a failure, starts a fresh load.
C26_FailedLoadCachesNothing ==
    [][/\ \A c \in Callers :
          (callPc[c] = "loading" /\ callPc'[c] = "failed")
             => /\ likec4Instance' = likec4Instance
                /\ callResult'[c] = Null
       /\ \A c \in Callers :
             (callPc'[c] = "failed") => (likec4Instance' # callLoad'[c])
       /\ (likec4Instance' # Null)
             => (\E d \in Callers : callPc'[d] = "done" /\ callLoad'[d] = likec4Instance')
       /\ \A c \in Callers :
             (callPc[c] = "idle" /\ callPc'[c] # "idle" /\ likec4Instance = Null)
                => /\ callPc'[c] = "loading"
                   /\ loadsStarted' = loadsStarted + 1
                   /\ \A d \in Callers \ {c} : callLoad'[c] # callLoad[d]]_vars

\* The first call's load failed and left the cache empty; the next call
\* started the second load, which succeeded and is cached.
C26_Witness ==
    \E c, d \in Callers :
        /\ callPc[c] = "failed" /\ callLoad[c] = 1 /\ callResult[c] = Null
        /\ callPc[d] = "done" /\ callLoad[d] = 2 /\ callResult[d] = 2
        /\ likec4Instance = 2
        /\ loadsStarted = 2

=============================================================================
